---- MODULE Spec2Model ----
(***************************************************************************)
(* Verification model of the symbolica expression-graph core:              *)
(*   src/src/constants.rs             Value leaves, their Hash and Display  *)
(*   src/src/symbols.rs               OperationKind, Operation, OpArgument  *)
(*   src/src/operation_properties.rs  arity, fixity, associativity, eval,   *)
(*                                    Ord for OperationKind                 *)
(*   src/src/operations.rs            the builders                          *)
(*   src/src/equivalencies.rs         hash_oparg, EquivalenceGraph          *)
(***************************************************************************)
EXTENDS Integers, Sequences, FiniteSets, TLC

VARIABLES
    nodes,      \* the Arc allocations: Arc<Value> and Arc<Operation>, by address
    handles,    \* the OpArgument structs: value (a node address) and hash (OnceCell)
    live,       \* the OpArguments the caller still owns (not moved into an Operation)
    hashKey,    \* the process-wide keys of OpHasher::default()
    hashRuns,   \* per node: how often hash_op / hash_leaf ran on it
    cellWrites, \* per OpArgument: how often its OnceCell was set
    stderr,     \* what dbg! has written
    running,    \* per OpArgument: the thread inside its get_or_init closure (0: none)
    stack,      \* per thread: the frames of OpArgument::hash it is in
    returned,   \* per OpArgument: the values its hash() calls have returned
    last,       \* the last API call of the single-threaded program and its result
    call,       \* the arguments of a call of a pure function
    ret         \* its result (NoRet: not called yet)

vars == <<nodes, handles, live, hashKey, hashRuns, cellWrites, stderr, running,
          stack, returned, last, call, ret>>

arenaVars == <<nodes, handles, live>>
hashVars == <<hashRuns, cellWrites, stderr, running, stack, returned>>
pureVars == <<call, ret>>

(***************************************************************************)
(* Bounds of the model.                                                    *)
(***************************************************************************)
MaxNodes == 3
MaxArgs == 3
MaxOps == 2
NThreads == 2

NoRet == [done |-> FALSE]
NoHash == -1
NoCall == [op |-> "none"]

(***************************************************************************)
(* OperationKind and its static metadata.                                  *)
(***************************************************************************)
OperationKind ==
    {"Addition", "Subtraction", "Multiplication", "Division", "Negation",
     "Pow", "Exp", "Sin", "Cos", "Tan", "Ln"}

is_infix(self) ==
    self \in {"Addition", "Subtraction", "Multiplication", "Division", "Pow"}

argcount(self) ==
    CASE self = "Negation" -> 1
      [] self \in {"Addition", "Subtraction", "Multiplication", "Division", "Pow"} -> 2
      [] self \in {"Exp", "Sin", "Cos", "Tan", "Ln"} -> 1

is_prefix(self) == self = "Negation"

associativity(self) ==
    CASE self = "Pow" -> "Right"
      [] self \in {"Addition", "Subtraction", "Multiplication", "Division"} -> "Left"
      [] self \in {"Negation", "Exp", "Sin", "Cos", "Tan", "Ln"} -> "Neither"

\* A plausible slip in the middle arm of cmp: the catch-all answers Less.
cmp_mutant(self, other) ==
    CASE self \in {"Addition", "Subtraction"} ->
            IF other \in {"Addition", "Subtraction"} THEN "Equal" ELSE "Greater"
      [] self \in {"Multiplication", "Division"} ->
            IF other \in {"Addition", "Subtraction"} THEN "Less"
            ELSE IF other \in {"Multiplication", "Division"} THEN "Equal"
            ELSE "Less"
      [] OTHER ->
            IF other \in {"Addition", "Subtraction", "Multiplication", "Division"}
            THEN "Less" ELSE "Equal"

\* impl Ord for OperationKind
cmp(self, other) ==
    CASE self \in {"Addition", "Subtraction"} ->
            IF other \in {"Addition", "Subtraction"} THEN "Equal" ELSE "Greater"
      [] self \in {"Multiplication", "Division"} ->
            IF other \in {"Addition", "Subtraction"} THEN "Less"
            ELSE IF other \in {"Multiplication", "Division"} THEN "Equal"
            ELSE "Greater"
      [] OTHER ->
            IF other \in {"Addition", "Subtraction", "Multiplication", "Division"}
            THEN "Less" ELSE "Equal"

(***************************************************************************)
(* Evaluation.  An f64 operation never traps (it yields inf or NaN), so    *)
(* the number an evaluator returns is kept as the applied term; indexing   *)
(* the argument slice past its end panics.                                 *)
(***************************************************************************)
F64Sample == {0, 1}

\* The slice index a[i] of Rust, 0-based, panics past the end of the slice.
IndexPanics(a, i) == i + 1 > Len(a)

Index(a, i) == a[i + 1]

IndexPanic == [panic |-> TRUE, term |-> <<>>]

eval_fn(self, a) ==
    IF self \in {"Addition", "Subtraction", "Multiplication", "Division", "Pow"}
    THEN IF IndexPanics(a, 0) \/ IndexPanics(a, 1)
         THEN IndexPanic
         ELSE [panic |-> FALSE, term |-> <<self, Index(a, 0), Index(a, 1)>>]
    ELSE IF IndexPanics(a, 0)
         THEN IndexPanic
         ELSE [panic |-> FALSE, term |-> <<self, Index(a, 0)>>]

\* eval without its assert_eq!: the evaluator runs on whatever it is given.
eval_mutant(self, a) ==
    LET r == eval_fn(self, a)
    IN  [done |-> TRUE, panicked |-> r.panic, ranEvalFn |-> TRUE, value |-> r.term]

\* OperationKind::eval
eval(self, a) ==
    IF argcount(self) # Len(a)
    THEN [done |-> TRUE, panicked |-> TRUE, ranEvalFn |-> FALSE, value |-> <<>>]
    ELSE LET r == eval_fn(self, a)
         IN  [done |-> TRUE, panicked |-> r.panic, ranEvalFn |-> TRUE, value |-> r.term]

RECURSIVE SeqsOfLen(_, _)
SeqsOfLen(S, n) ==
    IF n = 0 THEN {<<>>}
    ELSE {Append(s, x) : s \in SeqsOfLen(S, n - 1), x \in S}

SeqsUpTo(S, n) == UNION {SeqsOfLen(S, k) : k \in 0..n}

(***************************************************************************)
(* Value: the leaf terms.  One record shape for every variant; the fields   *)
(* a variant does not carry are 0 or "".                                    *)
(***************************************************************************)
Variable(name) == [disc |-> "Variable", name |-> name, num |-> 0, den |-> 0]
Rational(num, den) == [disc |-> "Rational", name |-> "", num |-> num, den |-> den]
Constant(disc) == [disc |-> disc, name |-> "", num |-> 0, den |-> 0]

\* impl Display for Value, as the sequence of lexemes of the text written.
\* The non-ASCII signs of Pi and Inf are spelled out.
fmt_value(v) ==
    CASE v.disc = "Rational" -> <<ToString(v.num), "/", ToString(v.den)>>
      [] v.disc = "Pi" -> <<"pi">>
      [] v.disc = "E" -> <<"e">>
      [] v.disc = "I" -> <<"i">>
      [] v.disc = "Inf" -> <<"inf">>
      [] v.disc = "Variable" -> <<v.name>>

\* impl Display for OperationKind
fmt_kind(self) ==
    CASE self = "Addition" -> "+"
      [] self = "Subtraction" -> "-"
      [] self = "Multiplication" -> "*"
      [] self = "Division" -> "/"
      [] self = "Negation" -> "-"
      [] self = "Pow" -> "^"
      [] self = "Exp" -> "exp"
      [] self = "Sin" -> "sin"
      [] self = "Cos" -> "cos"
      [] self = "Tan" -> "tan"
      [] self = "Ln" -> "ln"

(***************************************************************************)
(* An expression as the tree its Arc pointers unfold to.                   *)
(***************************************************************************)
LeafTree(v) == [tag |-> "Leaf", val |-> v, op |-> "", args |-> <<>>]
OpTree(k, args) == [tag |-> "Op", val |-> Constant(""), op |-> k, args |-> args]

\* The precedence comparison of an operator with one operand:
\* Op(op) => self.op.cmp(&op.op), _ => Ordering::Greater
operand_prec(self, arg) ==
    IF arg.tag = "Op" THEN cmp(self, arg.op) ELSE "Greater"

Parens(text) == <<"(">> \o text \o <<")">>

\* The prefix branch with parentheses on Ordering::Less alone.
prefix_text_mutant(self, precedence, text) ==
    IF precedence = "Less"
    THEN <<fmt_kind(self)>> \o Parens(text)
    ELSE <<fmt_kind(self)>> \o text

\* The prefix branch: the operand of a prefix operator.
prefix_text(self, precedence, text) ==
    IF precedence \in {"Less", "Equal"}
    THEN <<fmt_kind(self)>> \o Parens(text)
    ELSE <<fmt_kind(self)>> \o text

\* The infix branch: the left operand.
lhs_text(self, lhs_prec, text) ==
    CASE lhs_prec = "Equal" /\ associativity(self) = "Left" -> text
      [] lhs_prec = "Greater" -> text
      [] OTHER -> Parens(text)

\* The right operand tested against Associativity::Left, as the left one is.
rhs_text_mutant(self, rhs_prec, text) ==
    CASE rhs_prec = "Equal" /\ associativity(self) = "Left" -> text
      [] rhs_prec = "Greater" -> text
      [] OTHER -> Parens(text)

\* The infix branch: the right operand.
rhs_text(self, rhs_prec, text) ==
    CASE rhs_prec = "Equal" /\ associativity(self) = "Right" -> text
      [] rhs_prec = "Greater" -> text
      [] OTHER -> Parens(text)

\* The function branch: the arguments, a comma after all but the last.
RECURSIVE comma_list(_, _)
comma_list(texts, i) ==
    IF i > Len(texts) THEN <<>>
    ELSE texts[i] \o (IF i - 1 < Len(texts) - 1 THEN <<",">> ELSE <<>>)
         \o comma_list(texts, i + 1)

\* impl Display for OpArgument and impl Display for Operation, past the arity
\* check (fmt_panics).
RECURSIVE fmt(_)
fmt(e) ==
    IF e.tag = "Leaf" THEN fmt_value(e.val)
    ELSE IF is_prefix(e.op)
    THEN prefix_text(e.op, operand_prec(e.op, e.args[1]), fmt(e.args[1]))
    ELSE IF is_infix(e.op)
    THEN lhs_text(e.op, operand_prec(e.op, e.args[1]), fmt(e.args[1]))
         \o <<fmt_kind(e.op)>>
         \o rhs_text(e.op, operand_prec(e.op, e.args[2]), fmt(e.args[2]))
    ELSE <<fmt_kind(e.op)>>
         \o Parens(comma_list([i \in 1..Len(e.args) |-> fmt(e.args[i])], 1))

\* Whether rendering e reaches the panic of the arity check, at e or below.
RECURSIVE fmt_panics(_)
fmt_panics(e) ==
    /\ e.tag = "Op"
    /\ \/ Len(e.args) # argcount(e.op)
       \/ \E i \in 1..Len(e.args) : fmt_panics(e.args[i])

(***************************************************************************)
(* The expressions the builders can make of at most n operators.  There is *)
(* no builder for Tan.                                                     *)
(***************************************************************************)
BuilderKinds == OperationKind \ {"Tan"}

LeafSample == {Variable("x"), Rational(1, 2)}

\* S itself.  TLC stores a set whose cardinality it has taken in sorted
\* order, which keeps the unions below from searching their operands linearly.
Normalized(S) == IF Cardinality(S) = 0 THEN {} ELSE S

RECURSIVE TreesOfSize(_)
RECURSIVE BinaryTrees(_, _)
\* The binary operations of n operators whose left operand has at most m.
BinaryTrees(n, m) ==
    IF m < 0 THEN {}
    ELSE LET here == {OpTree(k, <<p[1], p[2]>>) :
                        k \in {j \in BuilderKinds : argcount(j) = 2},
                        p \in TreesOfSize(m) \X TreesOfSize(n - 1 - m)}
             rest == BinaryTrees(n, m - 1)
         IN  Normalized(Normalized(here) \cup Normalized(rest))

TreesOfSize(n) ==
    IF n = 0 THEN {LeafTree(v) : v \in LeafSample}
    ELSE LET unary == {OpTree(k, <<a>>) :
                         k \in {j \in BuilderKinds : argcount(j) = 1},
                         a \in TreesOfSize(n - 1)}
             binary == BinaryTrees(n, n - 1)
         IN  Normalized(Normalized(unary) \cup Normalized(binary))

RECURSIVE TreesUpTo(_)
TreesUpTo(n) ==
    IF n < 0 THEN {}
    ELSE LET these == TreesOfSize(n)
             fewer == TreesUpTo(n - 1)
         IN  Normalized(Normalized(these) \cup Normalized(fewer))

Trees == TreesUpTo(MaxOps)

(***************************************************************************)
(* The heap: nodes are the Arc allocations, handles the OpArgument structs. *)
(* An arena is the record [nodes, handles, live].                          *)
(***************************************************************************)
LeafNode(v) == [tag |-> "Leaf", val |-> v, op |-> "", arguments |-> <<>>]
OpNode(k, arguments) ==
    [tag |-> "Op", val |-> Constant(""), op |-> k, arguments |-> arguments]

\* impl From<OpArgumentKind> for OpArgument: an empty OnceCell.
NewOpArgument(n) == [value |-> n, hash |-> NoHash]

NoArena == [nodes |-> <<>>, handles |-> <<>>, live |-> {}]

\* Leaf(Arc::new(value)).into(): variable(name) and From<Value>.
alloc_leaf(A, v) ==
    [nodes |-> Append(A.nodes, LeafNode(v)),
     handles |-> Append(A.handles, NewOpArgument(Len(A.nodes) + 1)),
     live |-> A.live \cup {Len(A.handles) + 1}]

\* construct_oparg with the cache of the borrowed OpArgument carried over.
construct_oparg_mutant(A, h) ==
    [A EXCEPT !.handles = Append(@, A.handles[h])]

\* construct_oparg: a new OpArgument with an empty cache on the same Arc.
construct_oparg(A, h) ==
    [A EXCEPT !.handles = Append(@, NewOpArgument(A.handles[h].value))]

\* A by-reference operand deep-copied: a new allocation with the same content
\* in place of a clone of the Arc.
operand_mutant(A, h, mode) ==
    IF mode = "val"
    THEN [arena |-> [A EXCEPT !.live = @ \ {h}], arg |-> h]
    ELSE [arena |-> [A EXCEPT !.nodes = Append(@, A.nodes[A.handles[h].value]),
                              !.handles = Append(@, NewOpArgument(Len(A.nodes) + 1))],
          arg |-> Len(A.handles) + 1]

\* One operand of a builder: moved in (by value) or copied by construct_oparg
\* (by reference).  The result is the arena and the operand's OpArgument.
operand(A, h, mode) ==
    IF mode = "val"
    THEN [arena |-> [A EXCEPT !.live = @ \ {h}], arg |-> h]
    ELSE [arena |-> construct_oparg(A, h), arg |-> Len(A.handles) + 1]

\* Op(Operation { op, arguments }.into()).into()
alloc_op(A, k, arguments) ==
    [nodes |-> Append(A.nodes, OpNode(k, arguments)),
     handles |-> Append(A.handles, NewOpArgument(Len(A.nodes) + 1)),
     live |-> A.live \cup {Len(A.handles) + 1}]

\* A unary builder that stores its operand twice.
build_unary_mutant(A, k, h, mode) ==
    LET a == operand(A, h, mode)
    IN  alloc_op(a.arena, k, <<a.arg, a.arg>>)

build_unary(A, k, h, mode) ==
    LET a == operand(A, h, mode)
    IN  alloc_op(a.arena, k, <<a.arg>>)

build_binary(A, k, lhs, lmode, rhs, rmode) ==
    LET a == operand(A, lhs, lmode)
        b == operand(a.arena, rhs, rmode)
    IN  alloc_op(b.arena, k, <<a.arg, b.arg>>)

\* The expression an OpArgument denotes, its Arc pointers followed.
RECURSIVE TreeOf(_, _)
TreeOf(A, h) ==
    LET n == A.nodes[A.handles[h].value]
    IN  IF n.tag = "Leaf" THEN LeafTree(n.val)
        ELSE OpTree(n.op, [i \in 1..Len(n.arguments) |-> TreeOf(A, n.arguments[i])])

(***************************************************************************)
(* Structural hashing.  OpHasher is ahash's AHasher: a keyed fold of the   *)
(* words written, its keys fixed for the life of the process.              *)
(***************************************************************************)
HashKeys == {11, 29}

NameBytes(name) ==
    CASE name = "x" -> <<120>>
      [] name = "y" -> <<121>>
      [] name = "z" -> <<122>>

RECURSIVE Fold(_, _, _)
Fold(acc, buf, i) ==
    IF i > Len(buf) THEN acc
    ELSE Fold((acc * 31 + buf[i] + 1) % 65521, buf, i + 1)

\* hasher.finish() of an OpHasher::default() that was written buf.
Finish(key, buf) == Fold(key, buf, 1)

\* impl Hash for Value with the address of the Arc written in place of the
\* payload.
value_words_mutant(v, n) ==
    <<CASE v.disc = "Rational" -> 0
        [] v.disc = "Pi" -> 1
        [] v.disc = "E" -> 2
        [] v.disc = "I" -> 3
        [] v.disc = "Inf" -> 4
        [] v.disc = "Variable" -> 5>> \o <<n>>

\* impl Hash for Value: the words written for the Value at address n.
value_words(v, n) ==
    <<CASE v.disc = "Rational" -> 0
        [] v.disc = "Pi" -> 1
        [] v.disc = "E" -> 2
        [] v.disc = "I" -> 3
        [] v.disc = "Inf" -> 4
        [] v.disc = "Variable" -> 5>>
    \o (IF v.disc = "Rational" THEN <<v.num, v.den>>
        ELSE IF v.disc = "Variable" THEN NameBytes(v.name)
        ELSE <<>>)

\* impl Hash for Operation: the opcode.
opcode(k) ==
    CASE k = "Addition" -> 1
      [] k = "Subtraction" -> 2
      [] k = "Multiplication" -> 3
      [] k = "Division" -> 4
      [] k = "Negation" -> 5
      [] k = "Pow" -> 6
      [] k = "Exp" -> 7
      [] k = "Sin" -> 8
      [] k = "Cos" -> 9
      [] k = "Tan" -> 10
      [] k = "Ln" -> 11

(***************************************************************************)
(* OpArgument::hash as a machine a thread steps through.  M is the record  *)
(* [handles, hashRuns, cellWrites, stderr, running, stack, returned]; a    *)
(* frame [h, pc, idx, buf] is one call of hash() on OpArgument h.          *)
(***************************************************************************)
Frame(h) == [h |-> h, pc |-> "get_or_init", idx |-> 0, buf |-> <<>>]

Top(M, t) == M.stack[t][Len(M.stack[t])]

\* A cell without mutual exclusion: nobody ever waits.
Waiting_mutant(M, t) == FALSE

\* The thread waits in get_or_init (once_cell::sync): another thread runs the
\* closure on this cell.
Waiting(M, t) ==
    /\ M.stack[t] # <<>>
    /\ Top(M, t).pc = "get_or_init"
    /\ M.handles[Top(M, t).h].hash = NoHash
    /\ M.running[Top(M, t).h] # 0

CanStep(M, t) == M.stack[t] # <<>> /\ ~Waiting(M, t)

\* hash() of f.h returns v to thread t: to the frame below
\* (state.write_u64(e.hash())) or, from the outermost frame, to the caller.
Return(M, t, v) ==
    LET st == M.stack[t]
        f == st[Len(st)]
        rest == SubSeq(st, 1, Len(st) - 1)
    IN  [M EXCEPT !.returned[f.h] = @ \cup {<<t, v>>},
                  !.stack[t] =
                      IF rest = <<>> THEN <<>>
                      ELSE [rest EXCEPT ![Len(rest)] =
                               [@ EXCEPT !.buf = Append(@, v), !.idx = @ + 1]]]

SetTop(M, t, f) == [M EXCEPT !.stack[t][Len(M.stack[t])] = f]

\* self.hash.get_or_init: the value when the cell is set, else this thread
\* becomes the one that runs the closure.
enter_cell(M, t) ==
    LET f == Top(M, t)
    IN  IF M.handles[f.h].hash # NoHash
        THEN Return(M, t, M.handles[f.h].hash)
        ELSE SetTop([M EXCEPT !.running[f.h] = t], t, [f EXCEPT !.pc = "closure"])

\* hash_op without its dbg!.
hash_oparg_mutant(M, t, N) ==
    LET f == Top(M, t)
        n == M.handles[f.h].value
    IN  IF N[n].tag = "Op"
        THEN SetTop([M EXCEPT !.hashRuns[n] = @ + 1], t,
                    [f EXCEPT !.pc = "args", !.idx = 1,
                              !.buf = <<opcode(N[n].op), Len(N[n].arguments)>>])
        ELSE SetTop([M EXCEPT !.hashRuns[n] = @ + 1], t,
                    [f EXCEPT !.pc = "finish", !.buf = value_words(N[n].val, n)])

\* The closure: hash_oparg into a fresh OpHasher.  hash_op prints the
\* Operation with dbg! and writes opcode and argument count; hash_leaf writes
\* the Value.
hash_oparg(M, t, N) ==
    LET f == Top(M, t)
        n == M.handles[f.h].value
    IN  IF N[n].tag = "Op"
        THEN SetTop([M EXCEPT !.hashRuns[n] = @ + 1,
                              !.stderr = Append(@, n)], t,
                    [f EXCEPT !.pc = "args", !.idx = 1,
                              !.buf = <<opcode(N[n].op), Len(N[n].arguments)>>])
        ELSE SetTop([M EXCEPT !.hashRuns[n] = @ + 1], t,
                    [f EXCEPT !.pc = "finish", !.buf = value_words(N[n].val, n)])

\* self.arguments.iter().for_each(|e| state.write_u64(e.hash()))
hash_arguments(M, t, N) ==
    LET f == Top(M, t)
        n == M.handles[f.h].value
    IN  IF f.idx > Len(N[n].arguments)
        THEN SetTop(M, t, [f EXCEPT !.pc = "finish"])
        ELSE [M EXCEPT !.stack[t] = Append(@, Frame(N[n].arguments[f.idx]))]

\* hasher.finish(), and get_or_init sets the cell and lets the waiters go.
set_cell(M, t, key) ==
    LET f == Top(M, t)
        v == Finish(key, f.buf)
    IN  Return([M EXCEPT !.handles[f.h].hash = v,
                         !.cellWrites[f.h] = @ + 1,
                         !.running[f.h] = 0], t, v)

\* One step of thread t in OpArgument::hash.
HashStep(M, t, N, key) ==
    CASE Top(M, t).pc = "get_or_init" -> enter_cell(M, t)
      [] Top(M, t).pc = "closure" -> hash_oparg(M, t, N)
      [] Top(M, t).pc = "args" -> hash_arguments(M, t, N)
      [] Top(M, t).pc = "finish" -> set_cell(M, t, key)

\* A whole call of hash() by a thread that nothing interleaves with.
RECURSIVE RunHash(_, _, _, _)
RunHash(M, t, N, key) ==
    IF CanStep(M, t) THEN RunHash(HashStep(M, t, N, key), t, N, key) ELSE M

\* OpArgument::hash on h, run to its end by thread t.
hash(M, t, N, key, h) ==
    RunHash([M EXCEPT !.stack[t] = <<Frame(h)>>], t, N, key)

\* The per-node and per-OpArgument bookkeeping, extended to a grown arena.
Pad(s, n, x) == s \o [i \in 1..(n - Len(s)) |-> x]

(***************************************************************************)
(* variables(): a HashSet<&Value>, kept as the references it holds in the  *)
(* order they went in.  Two references are the same element when the       *)
(* Values they point to are equal (Value derives PartialEq and has Hash).  *)
(***************************************************************************)
\* A set of references compared by address.
hashset_insert_mutant(N, vs, n) ==
    IF \E i \in 1..Len(vs) : vs[i] = n THEN vs ELSE Append(vs, n)

\* vs.insert(value)
hashset_insert(N, vs, n) ==
    IF \E i \in 1..Len(vs) : N[vs[i]].val = N[n].val
    THEN vs
    ELSE Append(vs, n)

RECURSIVE fill_variables(_, _, _)
RECURSIVE fill_arguments(_, _, _, _)

\* op.arguments.iter().for_each(|oparg| oparg.fill_variables(vs))
fill_arguments(A, arguments, i, vs) ==
    IF i > Len(arguments) THEN vs
    ELSE fill_arguments(A, arguments, i + 1, fill_variables(A, arguments[i], vs))

\* OpArgument::fill_variables
fill_variables(A, h, vs) ==
    LET n == A.handles[h].value
    IN  IF A.nodes[n].tag = "Op"
        THEN fill_arguments(A, A.nodes[n].arguments, 1, vs)
        ELSE hashset_insert(A.nodes, vs, n)

\* OpArgument::variables
variables(A, h) == fill_variables(A, h, <<>>)

(***************************************************************************)
(* The equivalence graph.                                                  *)
(***************************************************************************)
\* An EquivalenceClass that is left empty.
eclass_from_mutant(oparg) == [graphset |-> {}]

\* impl From<&OpArgument> for EquivalenceClass
eclass_from(oparg) == [graphset |-> {} \cup {oparg}]

\* impl From<&OpArgument> for EquivalenceGraph
egraph_from(backing_graph) ==
    [backing_graph |-> backing_graph, eclasses |-> <<eclass_from(backing_graph)>>]

(***************************************************************************)
(* The state the pure-function specifications leave alone.                 *)
(***************************************************************************)
EmptyArena ==
    /\ nodes = <<>>
    /\ handles = <<>>
    /\ live = {}
    /\ hashKey = 0
    /\ hashRuns = <<>>
    /\ cellWrites = <<>>
    /\ stderr = <<>>
    /\ running = <<>>
    /\ stack = [t \in 1..NThreads |-> <<>>]
    /\ returned = <<>>
    /\ last = NoCall

(***************************************************************************)
(* Spec: a single-threaded program that builds expressions and queries     *)
(* them.  Every call runs to its end before the next begins.               *)
(***************************************************************************)
Arena == [nodes |-> nodes, handles |-> handles, live |-> live]

Machine ==
    [handles |-> handles, hashRuns |-> hashRuns, cellWrites |-> cellWrites,
     stderr |-> stderr, running |-> running, stack |-> stack,
     returned |-> returned]

VariableNames == {"x", "y"}
ValueSample == {Rational(1, 2)}
ArithmeticKinds == {"Addition", "Subtraction", "Multiplication", "Division"}
FunctionKinds == {"Ln", "Exp", "Sin", "Cos"}

Init ==
    /\ nodes = <<>>
    /\ handles = <<>>
    /\ live = {}
    /\ hashKey \in HashKeys
    /\ hashRuns = <<>>
    /\ cellWrites = <<>>
    /\ stderr = <<>>
    /\ running = <<>>
    /\ stack = [t \in 1..NThreads |-> <<>>]
    /\ returned = <<>>
    /\ last = NoCall
    /\ call = NoCall
    /\ ret = NoRet

\* The call of a builder of kind k on the operands (OpArguments) taken in the
\* given modes, and the call of a leaf constructor.
BuilderCall(k, operands, modes) ==
    [op |-> "build", kind |-> k, operands |-> operands, modes |-> modes]

LeafCall == [op |-> "leaf", kind |-> "", operands |-> <<>>, modes |-> <<>>]

\* The builder called as c has returned arena A2, its newest OpArgument the
\* result.
Built(A2, c) ==
    /\ nodes' = A2.nodes
    /\ handles' = A2.handles
    /\ live' = A2.live
    /\ hashRuns' = Pad(hashRuns, Len(A2.nodes), 0)
    /\ cellWrites' = Pad(cellWrites, Len(A2.handles), 0)
    /\ running' = Pad(running, Len(A2.handles), 0)
    /\ returned' = Pad(returned, Len(A2.handles), {})
    /\ call' = c
    /\ UNCHANGED <<hashKey, stderr, stack, last, ret>>

\* The machine has run a call to its end.
Ran(M2) ==
    /\ handles' = M2.handles
    /\ hashRuns' = M2.hashRuns
    /\ cellWrites' = M2.cellWrites
    /\ stderr' = M2.stderr
    /\ running' = M2.running
    /\ stack' = M2.stack
    /\ returned' = M2.returned

CallVariable ==
    \E name \in VariableNames :
        /\ Len(nodes) < MaxNodes
        /\ Built(alloc_leaf(Arena, Variable(name)), LeafCall)

FromValue ==
    \E v \in ValueSample :
        /\ Len(nodes) < MaxNodes
        /\ Built(alloc_leaf(Arena, v), LeafCall)

BinaryValVal ==
    \E k \in ArithmeticKinds, a \in live, b \in live :
        /\ Len(nodes) < MaxNodes
        /\ a # b
        /\ Built(build_binary(Arena, k, a, "val", b, "val"),
                 BuilderCall(k, <<a, b>>, <<"val", "val">>))

BinaryRefVal ==
    \E k \in ArithmeticKinds, a \in live, b \in live :
        /\ Len(nodes) < MaxNodes
        /\ a # b
        /\ Built(build_binary(Arena, k, a, "ref", b, "val"),
                 BuilderCall(k, <<a, b>>, <<"ref", "val">>))

BinaryValRef ==
    \E k \in ArithmeticKinds, a \in live, b \in live :
        /\ Len(nodes) < MaxNodes
        /\ a # b
        /\ Built(build_binary(Arena, k, a, "val", b, "ref"),
                 BuilderCall(k, <<a, b>>, <<"val", "ref">>))

BinaryRefRef ==
    \E k \in ArithmeticKinds, a \in live, b \in live :
        /\ Len(nodes) < MaxNodes
        /\ Built(build_binary(Arena, k, a, "ref", b, "ref"),
                 BuilderCall(k, <<a, b>>, <<"ref", "ref">>))

NegVal ==
    \E a \in live :
        /\ Len(nodes) < MaxNodes
        /\ Built(build_unary(Arena, "Negation", a, "val"),
                 BuilderCall("Negation", <<a>>, <<"val">>))

NegRef ==
    \E a \in live :
        /\ Len(nodes) < MaxNodes
        /\ Built(build_unary(Arena, "Negation", a, "ref"),
                 BuilderCall("Negation", <<a>>, <<"ref">>))

CallPow ==
    \E a \in live, b \in live :
        /\ Len(nodes) < MaxNodes
        /\ Built(build_binary(Arena, "Pow", a, "ref", b, "ref"),
                 BuilderCall("Pow", <<a, b>>, <<"ref", "ref">>))

CallFunction ==
    \E k \in FunctionKinds, a \in live :
        /\ Len(nodes) < MaxNodes
        /\ Built(build_unary(Arena, k, a, "ref"),
                 BuilderCall(k, <<a>>, <<"ref">>))

CallHash ==
    \E h \in live :
        LET M2 == hash(Machine, 1, nodes, hashKey, h)
        IN  /\ Ran(M2)
            /\ UNCHANGED <<nodes, live, hashKey, last, call, ret>>

Next ==
    \/ CallVariable
    \/ FromValue
    \/ BinaryValVal
    \/ BinaryRefVal
    \/ BinaryValRef
    \/ BinaryRefRef
    \/ NegVal
    \/ NegRef
    \/ CallPow
    \/ CallFunction
    \/ CallHash

Spec == Init /\ [][Next]_vars

Hashed(h) == handles[h].hash # NoHash

\* impl PartialEq for OpArgument, of two OpArguments whose cells are set.
eq(a, b) == handles[a].hash = handles[b].hash

\* C1: two expressions of the same shape, operators and leaf values have the
\* same hash, however and wherever they were built, and so compare equal.
C1_StructuralHash ==
    \A a \in 1..Len(handles), b \in 1..Len(handles) :
        (Hashed(a) /\ Hashed(b) /\ TreeOf(Arena, a) = TreeOf(Arena, b)) => eq(a, b)

\* Two separately allocated Operations of one shape have both been hashed,
\* one holding its operand by value and with its cache set beforehand, the
\* other a copy made by construct_oparg.
C1_Witness ==
    \E a \in live, b \in live :
        /\ handles[a].value # handles[b].value
        /\ nodes[handles[a].value].tag = "Op"
        /\ nodes[handles[a].value].arguments # nodes[handles[b].value].arguments
        /\ TreeOf(Arena, a) = TreeOf(Arena, b)
        /\ Hashed(a) /\ Hashed(b)
        /\ eq(a, b)

\* C11: after any sequence of builder calls every Operation node has exactly
\* argcount() children for its kind, so rendering any built expression does
\* not reach the arity panic.
C11_BuiltArity ==
    /\ \A n \in 1..Len(nodes) :
           nodes[n].tag = "Op" => Len(nodes[n].arguments) = argcount(nodes[n].op)
    /\ \A h \in 1..Len(handles) : ~fmt_panics(TreeOf(Arena, h))

\* A binary operation over a unary operation is live and renders.
C11_Witness ==
    \E h \in live :
        LET n == nodes[handles[h].value]
        IN  /\ n.tag = "Op" /\ Len(n.arguments) = 2
            /\ \E i \in 1..2 :
                   LET c == nodes[handles[n.arguments[i]].value]
                   IN  c.tag = "Op" /\ Len(c.arguments) = 1
            /\ ~fmt_panics(TreeOf(Arena, h))

\* C12: a builder returns a newly allocated Operation of its kind whose
\* children are the given operands in the given order, held in a fresh
\* OpArgument with an empty cache, and changes nothing that exists: every
\* OpArgument keeps its node and its cached hash, every node its operator and
\* children, a by-reference operand stays usable, and each child points at
\* its operand's own node, no copy being made.
C12_BuilderFrame ==
    [][(call'.op = "build" /\ Len(nodes') > Len(nodes)) =>
          LET n == Len(nodes')
              root == Len(handles')
              node == nodes'[n]
          IN  /\ n = Len(nodes) + 1
              /\ SubSeq(nodes', 1, Len(nodes)) = nodes
              /\ node.tag = "Op"
              /\ node.op = call'.kind
              /\ Len(node.arguments) = Len(call'.operands)
              /\ \A i \in 1..Len(node.arguments) :
                     LET child == node.arguments[i]
                         given == call'.operands[i]
                     IN  /\ handles'[child].value = handles[given].value
                         /\ call'.modes[i] = "val" =>
                                child = given /\ given \notin live'
                         /\ call'.modes[i] = "ref" =>
                                child > Len(handles) /\ given \in live'
              /\ root > Len(handles)
              /\ root \in live'
              /\ handles'[root] = [value |-> n, hash |-> NoHash]
              /\ \A h \in 1..Len(handles) :
                     /\ handles'[h] = handles[h]
                     /\ TreeOf(Arena', h) = TreeOf(Arena, h)
              /\ SubSeq(hashRuns', 1, Len(nodes)) = hashRuns
              /\ stderr' = stderr]_vars

\* A builder has taken by reference an operand whose hash was cached: the
\* operand is live with its cache, the result has none, and the child points
\* at the operand's node.
C12_Witness ==
    /\ call.op = "build"
    /\ Len(nodes) = MaxNodes
    /\ \E i \in 1..Len(call.operands) :
           /\ call.modes[i] = "ref"
           /\ call.operands[i] \in live
           /\ Hashed(call.operands[i])
           /\ nodes[handles[call.operands[i]].value].tag = "Op"
           /\ handles[nodes[Len(nodes)].arguments[i]].value
                  = handles[call.operands[i]].value
    /\ ~Hashed(Len(handles))

\* C6: the hash of a node (one Operation or Value allocation) is computed at
\* most once, also when the node is reached through several parents.
C6_NodeHashedOnce ==
    \A n \in 1..Len(nodes) : hashRuns[n] <= 1

\* C10: no operation performs I/O or waits on another thread; hash() writes
\* nothing.
C10_NoOutputNoWaiting ==
    /\ stderr = <<>>
    /\ \A t \in 1..NThreads : ~Waiting(Machine, t)

(***************************************************************************)
(* SpecQuery: variables() and the equivalence graph on every expression of *)
(* at most MaxOps operators, built by value.                               *)
(***************************************************************************)
\* The arena after building tree e on top of A, and the OpArgument built.
RECURSIVE BuildTree(_, _, _)
BuildTree(A, e, mode) ==
    IF e.tag = "Leaf"
    THEN [arena |-> alloc_leaf(A, e.val), h |-> Len(A.handles) + 1]
    ELSE IF Len(e.args) = 1
    THEN LET a == BuildTree(A, e.args[1], mode)
             B == build_unary(a.arena, e.op, a.h, mode)
         IN  [arena |-> B, h |-> Len(B.handles)]
    ELSE LET a == BuildTree(A, e.args[1], mode)
             b == BuildTree(a.arena, e.args[2], mode)
             B == build_binary(b.arena, e.op, a.h, mode, b.h, mode)
         IN  [arena |-> B, h |-> Len(B.handles)]

\* The machine of a program that has built arena A and hashed nothing.
Booted(A, key) ==
    /\ nodes = A.nodes
    /\ handles = A.handles
    /\ live = A.live
    /\ hashKey = key
    /\ hashRuns = [i \in 1..Len(A.nodes) |-> 0]
    /\ cellWrites = [i \in 1..Len(A.handles) |-> 0]
    /\ stderr = <<>>
    /\ running = [i \in 1..Len(A.handles) |-> 0]
    /\ stack = [t \in 1..NThreads |-> <<>>]
    /\ returned = [i \in 1..Len(A.handles) |-> {}]
    /\ last = NoCall
    /\ call = NoCall
    /\ ret = NoRet

InitQuery ==
    \E e \in Trees, key \in HashKeys :
        Booted(BuildTree(NoArena, e, "val").arena, key)

\* One query is made per run (last.op = "none"): neither query's result
\* depends on an earlier query.
CallVariables ==
    \E h \in live :
        /\ last.op = "none"
        /\ last' = [op |-> "variables", h |-> h, out |-> variables(Arena, h)]
        /\ UNCHANGED <<arenaVars, hashKey, hashVars, call, ret>>

\* EquivalenceGraph::from(h).  Inserting h into the class's HashSet hashes it
\* (impl Hash for OpArgument), which fills its cache.
EGraphFrom ==
    \E h \in live :
        LET M2 == hash(Machine, 1, nodes, hashKey, h)
        IN  /\ last.op = "none"
            /\ Ran(M2)
            /\ last' = [op |-> "egraph", h |-> h, out |-> egraph_from(h)]
            /\ UNCHANGED <<nodes, live, hashKey, call, ret>>

NextQuery ==
    \/ CallVariables
    \/ EGraphFrom

SpecQuery == InitQuery /\ [][NextQuery]_vars

\* The Values at the leaves of an expression.
RECURSIVE LeafValues(_)
LeafValues(e) ==
    IF e.tag = "Leaf" THEN {e.val}
    ELSE UNION {LeafValues(e.args[i]) : i \in 1..Len(e.args)}

\* C8: variables() returns exactly the set of Value leaves that occur in the
\* expression, each distinct value once however often and in whatever order
\* it occurs.
C8_VariablesAreTheLeaves ==
    last.op = "variables" =>
        LET expected == LeafValues(TreeOf(Arena, last.h))
        IN  /\ {nodes[last.out[i]].val : i \in 1..Len(last.out)} = expected
            /\ Len(last.out) = Cardinality(expected)

\* variables() of x * cos(x), its two x leaves separate allocations, has
\* returned one reference.
C8_Witness ==
    /\ last.op = "variables"
    /\ TreeOf(Arena, last.h) =
           OpTree("Multiplication", <<LeafTree(Variable("x")),
                                      OpTree("Cos", <<LeafTree(Variable("x"))>>)>>)
    /\ Len(last.out) = 1
    /\ nodes[last.out[1]].val = Variable("x")

\* The OpArguments reachable from h: h and the arguments below it.
RECURSIVE ReachableFrom(_)
ReachableFrom(h) ==
    LET n == nodes[handles[h].value]
    IN  {h} \cup UNION {ReachableFrom(n.arguments[i]) : i \in 1..Len(n.arguments)}

ClassesHolding(G, h) == {i \in 1..Len(G.eclasses) : h \in G.eclasses[i].graphset}

\* C9 as stated: the classes of a graph built from a root partition the
\* expressions reachable from the root: each is in exactly one class.
C9_ClassesPartitionReachable ==
    last.op = "egraph" =>
        /\ \A h \in ReachableFrom(last.h) :
               Cardinality(ClassesHolding(last.out, h)) = 1
        /\ \A i \in 1..Len(last.out.eclasses) :
               last.out.eclasses[i].graphset \subseteq ReachableFrom(last.h)

\* C9 as amended: a graph built from a root holds exactly one class, the
\* singleton of the root: no expression is in two classes, the root is in
\* one, and every other reachable expression is in none.
C9_SingletonRootClass ==
    last.op = "egraph" =>
        /\ last.out.backing_graph = last.h
        /\ Len(last.out.eclasses) = 1
        /\ last.out.eclasses[1].graphset = {last.h}
        /\ \A h \in ReachableFrom(last.h) :
               Cardinality(ClassesHolding(last.out, h)) = IF h = last.h THEN 1 ELSE 0

\* A graph has been built from a root that is an Operation with operands.
C9_Witness ==
    /\ last.op = "egraph"
    /\ nodes[handles[last.h].value].tag = "Op"
    /\ Cardinality(ReachableFrom(last.h)) >= 3
    /\ Hashed(last.h)
    /\ Len(last.out.eclasses) = 1

(***************************************************************************)
(* SpecConc: NThreads threads call hash() on the OpArguments of a built    *)
(* expression, their steps interleaved.                                    *)
(***************************************************************************)
\* x;  x and e = &x + &x;  x and f = -(&x + &x).
ConcArenas ==
    LET A1 == alloc_leaf(NoArena, Variable("x"))
        A2 == build_binary(A1, "Addition", 1, "ref", 1, "ref")
        A3 == build_unary(A2, "Negation", Len(A2.handles), "val")
    IN  {A1, A2, A3}

InitConc ==
    \E A \in ConcArenas, key \in HashKeys : Booted(A, key)

\* Thread t calls hash() on h.
ThreadCall(t) ==
    \E h \in live :
        /\ stack[t] = <<>>
        /\ stack' = [stack EXCEPT ![t] = <<Frame(h)>>]
        /\ UNCHANGED <<arenaVars, hashKey, hashRuns, cellWrites, stderr, running,
                       returned, last, call, ret>>

\* Thread t takes its next step, unless it waits for a cell.
ThreadStep(t) ==
    /\ CanStep(Machine, t)
    /\ Ran(HashStep(Machine, t, nodes, hashKey))
    /\ UNCHANGED <<nodes, live, hashKey, last, call, ret>>

NextConc ==
    \E t \in 1..NThreads :
        \/ ThreadCall(t)
        \/ ThreadStep(t)

SpecConc == InitConc /\ [][NextConc]_vars

\* C5: however the hash() calls of several threads on one OpArgument
\* interleave, its cache is written at most once, never changes once
\* written, and every call returns the same value.
C5_CacheWrittenOnce ==
    [][\A h \in 1..Len(handles) :
          /\ cellWrites'[h] <= 1
          /\ handles[h].hash # NoHash => handles'[h].hash = handles[h].hash
          /\ \A r \in returned'[h] : r[2] = handles'[h].hash /\ r[2] # NoHash]_vars

\* Every thread has called hash() on the same Operation and has its value,
\* and the cell was set once.
C5_Witness ==
    \E h \in live :
        /\ nodes[handles[h].value].tag = "Op"
        /\ {r[1] : r \in returned[h]} = 1..NThreads
        /\ Cardinality({r[2] : r \in returned[h]}) = 1
        /\ cellWrites[h] = 1

(***************************************************************************)
(* SpecOrd: cmp on every triple of operator kinds.                         *)
(***************************************************************************)
InitOrd ==
    /\ EmptyArena
    /\ call \in {[fn |-> "cmp", a |-> a, b |-> b, c |-> c] :
                    a \in OperationKind, b \in OperationKind, c \in OperationKind}
    /\ ret = NoRet

CallCmp ==
    /\ call.fn = "cmp"
    /\ ~ret.done
    /\ ret' = [done |-> TRUE, ab |-> cmp(call.a, call.b), ba |-> cmp(call.b, call.a),
                bc |-> cmp(call.b, call.c), ac |-> cmp(call.a, call.c)]
    /\ UNCHANGED <<arenaVars, hashKey, hashVars, last, call>>

NextOrd == CallCmp

SpecOrd == InitOrd /\ [][NextOrd]_vars

Compare(x, y) == IF x < y THEN "Less" ELSE IF x = y THEN "Equal" ELSE "Greater"

\* The precedence class of an operator: additive lowest, multiplicative in the
\* middle, power, negation and the functions highest.
PrecClass(k) ==
    IF k \in {"Addition", "Subtraction"} THEN 1
    ELSE IF k \in {"Multiplication", "Division"} THEN 2
    ELSE 3

\* cmp is total and consistent: the two directions of a comparison mirror each
\* other and the relation is transitive.
CmpConsistent ==
    /\ ret.ab \in {"Less", "Equal", "Greater"}
    /\ (ret.ab = "Less") = (ret.ba = "Greater")
    /\ (ret.ab = "Equal") = (ret.ba = "Equal")
    /\ (ret.ab \in {"Less", "Equal"} /\ ret.bc \in {"Less", "Equal"})
          => ret.ac \in {"Less", "Equal"}
    /\ (ret.ab = "Less" /\ ret.bc \in {"Less", "Equal"}) => ret.ac = "Less"
    /\ (ret.ab = "Equal" /\ ret.bc = "Equal") => ret.ac = "Equal"

\* C4 as stated: cmp orders the operators by ascending precedence class:
\* Addition and Subtraction Less than all of the others, Multiplication and
\* Division in the middle, Pow, Negation and the functions highest, and two
\* operators of one class Equal.
C4_CmpAscendingPrecedence ==
    ret.done =>
        /\ CmpConsistent
        /\ ret.ab = Compare(PrecClass(call.a), PrecClass(call.b))

\* C4 as amended: cmp is a total and consistent ordering by precedence class
\* in the descending direction: Addition and Subtraction compare Greater than
\* every other operator, Multiplication and Division in the middle, Pow,
\* Negation, Exp, Sin, Cos, Tan, Ln compare Less than the other two classes,
\* and two operators of one class compare Equal.
C4_CmpDescendingPrecedence ==
    ret.done =>
        /\ CmpConsistent
        /\ ret.ab = Compare(PrecClass(call.b), PrecClass(call.a))

\* cmp has compared an additive with a multiplicative and with a power operator.
C4_Witness ==
    /\ ret.done
    /\ call.a = "Addition" /\ call.b = "Multiplication" /\ call.c = "Pow"
    /\ ret.ab = "Greater" /\ ret.bc = "Greater" /\ ret.ac = "Greater"

(***************************************************************************)
(* SpecEval: eval on every kind and every short argument slice.            *)
(***************************************************************************)
InitEval ==
    /\ EmptyArena
    /\ call \in {[fn |-> "eval", kind |-> k, args |-> a] :
                    k \in OperationKind, a \in SeqsUpTo(F64Sample, MaxArgs)}
    /\ ret = NoRet

CallEval ==
    /\ call.fn = "eval"
    /\ ~ret.done
    /\ ret' = eval(call.kind, call.args)
    /\ UNCHANGED <<arenaVars, hashKey, hashVars, last, call>>

NextEval == CallEval

SpecEval == InitEval /\ [][NextEval]_vars

(***************************************************************************)
(* SpecRender: Display on every expression of at most MaxOps operators.    *)
(***************************************************************************)
InitRender ==
    /\ EmptyArena
    /\ call \in {[fn |-> "fmt", expr |-> e] : e \in Trees}
    /\ ret = NoRet

CallFmt ==
    /\ call.fn = "fmt"
    /\ ~ret.done
    /\ ret' = [done |-> TRUE, panicked |-> fmt_panics(call.expr),
               text |-> IF fmt_panics(call.expr) THEN <<>> ELSE fmt(call.expr)]
    /\ UNCHANGED <<arenaVars, hashKey, hashVars, last, call>>

NextRender == CallFmt

SpecRender == InitRender /\ [][NextRender]_vars

(***************************************************************************)
(* The conceptual precedence-climbing parser of the rendering contract:    *)
(* the declared precedence classes and associativity, function calls with  *)
(* mandatory parentheses, and a prefix minus that binds like negation.     *)
(***************************************************************************)
PLeaf(tok) == [tag |-> "Leaf", tok |-> tok, op |-> "", args |-> <<>>]
POp(k, args) == [tag |-> "Op", tok |-> "", op |-> k, args |-> args]

InfixSigns == {"+", "-", "*", "/", "^"}
FunctionNames == {"exp", "sin", "cos", "tan", "ln"}

InfixOf(tok) ==
    CASE tok = "+" -> "Addition"
      [] tok = "-" -> "Subtraction"
      [] tok = "*" -> "Multiplication"
      [] tok = "/" -> "Division"
      [] tok = "^" -> "Pow"

FunctionOf(tok) ==
    CASE tok = "exp" -> "Exp"
      [] tok = "sin" -> "Sin"
      [] tok = "cos" -> "Cos"
      [] tok = "tan" -> "Tan"
      [] tok = "ln" -> "Ln"

ParseFail == [ok |-> FALSE, tree |-> PLeaf(""), pos |-> 0]

RECURSIVE parse_expr(_, _, _)
RECURSIVE parse_primary(_, _)
RECURSIVE parse_loop(_, _, _, _)

parse_primary(t, pos) ==
    IF pos > Len(t) THEN ParseFail
    ELSE IF t[pos] = "("
    THEN LET r == parse_expr(t, pos + 1, 1)
         IN  IF r.ok /\ r.pos <= Len(t) /\ t[r.pos] = ")"
             THEN [r EXCEPT !.pos = r.pos + 1]
             ELSE ParseFail
    ELSE IF t[pos] \in FunctionNames
    THEN IF pos + 1 <= Len(t) /\ t[pos + 1] = "("
         THEN LET r == parse_expr(t, pos + 2, 1)
              IN  IF r.ok /\ r.pos <= Len(t) /\ t[r.pos] = ")"
                  THEN [ok |-> TRUE, tree |-> POp(FunctionOf(t[pos]), <<r.tree>>),
                        pos |-> r.pos + 1]
                  ELSE ParseFail
         ELSE ParseFail
    ELSE IF t[pos] = "-"
    THEN LET r == parse_expr(t, pos + 1, PrecClass("Negation"))
         IN  IF r.ok
             THEN [ok |-> TRUE, tree |-> POp("Negation", <<r.tree>>), pos |-> r.pos]
             ELSE ParseFail
    ELSE IF t[pos] \in {")", ",", "+", "*", "/", "^"} THEN ParseFail
    ELSE [ok |-> TRUE, tree |-> PLeaf(t[pos]), pos |-> pos + 1]

parse_loop(t, lhs, pos, minPrec) ==
    IF pos > Len(t) \/ t[pos] \notin InfixSigns
    THEN [ok |-> TRUE, tree |-> lhs, pos |-> pos]
    ELSE LET k == InfixOf(t[pos])
             p == PrecClass(k)
         IN  IF p < minPrec THEN [ok |-> TRUE, tree |-> lhs, pos |-> pos]
             ELSE LET r == parse_expr(t, pos + 1,
                                      IF associativity(k) = "Right" THEN p ELSE p + 1)
                  IN  IF r.ok
                      THEN parse_loop(t, POp(k, <<lhs, r.tree>>), r.pos, minPrec)
                      ELSE ParseFail

parse_expr(t, pos, minPrec) ==
    LET l == parse_primary(t, pos)
    IN  IF l.ok THEN parse_loop(t, l.tree, l.pos, minPrec) ELSE ParseFail

Parse(t) ==
    LET r == parse_expr(t, 1, 1)
    IN  IF r.ok /\ r.pos = Len(t) + 1 THEN r.tree ELSE PLeaf("")

\* The tree a parser is to give back for e.  A Rational leaf prints as n/d,
\* which a parser can only read as the quotient of n and d.
RECURSIVE ShapeOf(_)
ShapeOf(e) ==
    IF e.tag = "Op" THEN POp(e.op, [i \in 1..Len(e.args) |-> ShapeOf(e.args[i])])
    ELSE IF e.val.disc = "Rational"
    THEN POp("Division", <<PLeaf(ToString(e.val.num)), PLeaf(ToString(e.val.den))>>)
    ELSE PLeaf(fmt_value(e.val)[1])

\* The position of the ")" that closes the "(" at position i of t.
RECURSIVE ClosingOf(_, _, _)
ClosingOf(t, j, depth) ==
    IF j > Len(t) THEN 0
    ELSE IF t[j] = ")" /\ depth = 0 THEN j
    ELSE ClosingOf(t, j + 1,
                   IF t[j] = "(" THEN depth + 1
                   ELSE IF t[j] = ")" THEN depth - 1 ELSE depth)

WithoutPair(t, i) ==
    LET j == ClosingOf(t, i + 1, 0)
    IN  SubSeq(t, 1, i - 1) \o SubSeq(t, i + 1, j - 1) \o SubSeq(t, j + 1, Len(t))

RoundTrips(e, t) == Parse(t) = ShapeOf(e)

NoRemovablePair(t) ==
    \A i \in 1..Len(t) : t[i] = "(" => Parse(WithoutPair(t, i)) # Parse(t)

\* C2: the rendered text of every expression, parsed back by a
\* precedence-climbing parser with the declared precedence and associativity,
\* gives a tree of the same shape, and no pair of parentheses of the text can
\* be removed without changing the parsed tree.
C2_RenderRoundTripMinimal ==
    ret.done =>
        /\ ~ret.panicked
        /\ RoundTrips(call.expr, ret.text)
        /\ NoRemovablePair(ret.text)

\* The operand of an infix operator as C3 wants it printed: bare when it is a
\* leaf, binds tighter than the parent, or binds as tightly and sits on the
\* side of the parent's associativity; in parentheses otherwise.
C3_Operand(parent, child, side) ==
    IF child.tag = "Leaf"
       \/ PrecClass(child.op) > PrecClass(parent)
       \/ /\ PrecClass(child.op) = PrecClass(parent)
          /\ \/ side = "lhs" /\ associativity(parent) = "Left"
             \/ side = "rhs" /\ associativity(parent) = "Right"
    THEN fmt(child)
    ELSE Parens(fmt(child))

\* C3: an infix operator node is printed as its left operand, its sign and its
\* right operand; an operand that is an operator is bare exactly when (a) its
\* precedence is strictly greater than the parent's or (b) it is equal and the
\* operand is the left one of a Left-associative or the right one of a
\* Right-associative parent; otherwise it is in parentheses; a leaf is bare.
C3_InfixParentheses ==
    (ret.done /\ call.expr.tag = "Op" /\ is_infix(call.expr.op)) =>
        /\ ~ret.panicked
        /\ ret.text = C3_Operand(call.expr.op, call.expr.args[1], "lhs")
                      \o <<fmt_kind(call.expr.op)>>
                      \o C3_Operand(call.expr.op, call.expr.args[2], "rhs")

\* (x^x)^x has been rendered: the equal-precedence operand on the left of the
\* right-associative Pow is in parentheses.
C3_Witness ==
    /\ ret.done
    /\ call.expr = OpTree("Pow", <<OpTree("Pow", <<LeafTree(Variable("x")),
                                                   LeafTree(Variable("x"))>>),
                                   LeafTree(Variable("x"))>>)
    /\ ret.text = <<"(", "x", "^", "x", ")", "^", "x">>

\* C13: a Negation node is printed as its sign followed by its operand; the
\* operand is in parentheses exactly when it is an operator whose precedence
\* is lower than or equal to Negation's, and bare when it is a leaf or an
\* operator of strictly higher precedence.
C13_PrefixParentheses ==
    (ret.done /\ call.expr.tag = "Op" /\ is_prefix(call.expr.op)) =>
        LET child == call.expr.args[1]
        IN  /\ ~ret.panicked
            /\ ret.text =
                   <<fmt_kind(call.expr.op)>>
                   \o (IF child.tag = "Op"
                          /\ PrecClass(child.op) <= PrecClass(call.expr.op)
                       THEN Parens(fmt(child))
                       ELSE fmt(child))

\* -(sin(x)) has been rendered: the operand of equal precedence is in
\* parentheses.
C13_Witness ==
    /\ ret.done
    /\ call.expr = OpTree("Negation", <<OpTree("Sin", <<LeafTree(Variable("x"))>>)>>)
    /\ ret.text = <<"-", "(", "sin", "(", "x", ")", ")">>

\* C7: for every OperationKind, eval with exactly argcount() arguments returns
\* a value without failing, and eval with any other number of arguments
\* panics before the evaluator runs.
C7_EvalArity ==
    ret.done =>
        IF Len(call.args) = argcount(call.kind)
        THEN ~ret.panicked /\ ret.ranEvalFn /\ ret.value[1] = call.kind
        ELSE ret.panicked /\ ~ret.ranEvalFn

\* eval has refused a binary operator called with three arguments.
C7_Witness ==
    /\ ret.done
    /\ call.kind = "Pow" /\ Len(call.args) = 3
    /\ ret.panicked /\ ~ret.ranEvalFn

====
